---- MODULE Spec2Model ----
(***************************************************************************)
(* Model of drone_metadata.processing.batch_processor: the BatchProcessor  *)
(* job orchestrator (process_batch, its thread pool workers, the progress  *)
(* lock and the JSON checkpoint file).                                     *)
(***************************************************************************)
EXTENDS Integers, FiniteSets, Sequences, TLC

(* ------------------------------ bounds -------------------------------- *)
\* number of video files that discovery finds
NumVideos == 2
\* number of process_batch calls made on the one BatchProcessor
MaxRuns == 3
LoadRuns == 2
\* the same, in the runs that drive the error-rate check past its threshold
BreakerRuns == 6
\* timeout_per_video, in clock ticks
TimeoutTicks == 1
\* largest max_workers and largest retry_attempts a BatchConfig is given
MaxWorkers == 2
MaxRetryAttempts == 2
\* the same, in the runs that look at the sleeps between the attempts
MaxBackoffAttempts == 3
\* largest number of paths handed to discover_videos
MaxPaths == 2
\* number of different analysis results of one video
MaxVersions == 2
\* process_batch calls in the runs that follow _generate_outputs
OutputRuns == 2
\* process_batch calls in the runs whose discovery result changes
ResumeRuns == 2
\* process_batch calls in the runs with a progress callback
CallbackRuns == 2
\* get_batch_summary: largest number of jobs in the Progress it is given, and
\* largest processing time of a job, in steps of two seconds
MaxSummaryJobs == 4
MaxDurationSteps == 3
\* save_progress_interval: a value the processed count reaches within one
\* call, and a value it stays below in every call of the model
ShortInterval == 2
LongInterval == 13

(* ------------------------- program constants -------------------------- *)
\* process_batch: "progress.processed > 10"
GraceThreshold == 10
\* BatchConfig.max_error_percentage default
max_error_percentage == 50
\* BatchConfig.retry_delay default, in seconds
retry_delay == 1

JobIds == 0 .. (NumVideos - 1)
BatchIds == {"batch_a", "batch_b"}
Status == {"pending", "processing", "completed", "failed", "skipped"}

VARIABLES
    config,      \* BatchProcessor.config (BatchConfig)
    progress,    \* the BatchProgress object of the current process_batch call
    disk,        \* the checkpoint file self.progress_file
    pc,          \* position of the thread that called process_batch
    wstate,      \* per job: position of its future / worker in the pool
    submitted,   \* jobs_to_process of the current call
    handled,     \* futures already yielded by as_completed in this call
    lockHolder,  \* owner of self.progress_lock
    budget,      \* process_batch calls the caller will still make
    resumed,     \* the current call got its Progress from load_progress
    loadedJobs,  \* the jobs the current call started from
    notStarted,  \* jobs still queued in the pool when the breaker tripped
    saved,       \* what the final save_progress of the current call did
    elapsed,     \* clock ticks since as_completed was called
    ran,         \* per job: clock ticks its current (or last) attempt took
    log,         \* counter and checkpoint-file accesses of the current call
    slept,       \* per job: the time.sleep durations of its current execution
    futures,     \* the list jobs_to_process, in submission order
    input_paths, \* discover_videos: its argument
    video_files, \* discover_videos: the list video_files
    scanned,     \* discover_videos: input paths gone through; Len + 1 once
                 \* the function has returned
    glob_folds,  \* Path.rglob matches file names regardless of case
    outputs,     \* the files of the output directory: name -> content
    overwrite_existing,  \* FormatterConfig.overwrite_existing
    last_call,   \* the last format_single_video call and what it returned
    summary,     \* what the last get_batch_summary call returned
    gen,         \* per job: where its worker is inside _generate_outputs
    swallowed,   \* jobs whose last _generate_outputs caught an exception
    wrote,       \* jobs whose last _generate_outputs wrote a file
    progress_callback   \* whether a progress callback is registered

vars == <<config, progress, disk, pc, wstate, submitted, handled, lockHolder,
          budget, resumed, loadedJobs, notStarted, saved, elapsed, ran,
          log, slept, futures, input_paths, video_files, scanned,
          glob_folds, outputs, overwrite_existing, last_call, summary, gen,
          swallowed, wrote, progress_callback>>

\* process_batch, its workers and the checkpoint file
main == <<config, progress, disk, pc, wstate, submitted, handled, lockHolder,
         budget, resumed, loadedJobs, notStarted, saved, elapsed, ran, log,
         slept, futures>>

\* discover_videos, seen on its own
discovery == <<input_paths, video_files, scanned, glob_folds>>

\* the formatters, seen on their own
formatting == <<outputs, overwrite_existing, last_call>>

\* what the model of process_batch and its workers leaves aside
\* _generate_outputs, followed step by step
generation == <<gen, swallowed, wrote>>

side == <<discovery, formatting, summary, generation, progress_callback>>

(* --------------------------- data classes ----------------------------- *)
\* datetime values are clock readings 1, 2, ...; NoTime is None
NoTime == 0

\* datetime.isoformat and datetime.fromisoformat: the text of a reading is
\* the one-element sequence that holds it, None is written as null
isoformat(t) == <<t>>
fromisoformat(s) == s[1]
JsonNull == << >>

\* VideoProcessingJob(video_path, job_id): the dataclass defaults
VideoProcessingJob(video_path, job_id) ==
    [video_path |-> video_path, job_id |-> job_id, status |-> "pending",
     start_time |-> NoTime, end_time |-> NoTime,
     attempts |-> 0, error_message |-> 0, result |-> FALSE]

\* BatchProgress(batch_id, total_videos): the dataclass defaults
BatchProgress(batch_id, total_videos) ==
    [batch_id |-> batch_id, total_videos |-> total_videos, completed |-> 0,
     failed |-> 0, skipped |-> 0, in_progress |-> 0,
     jobs |-> [j \in {} |-> VideoProcessingJob(0, 0)]]

\* BatchProgress.processed
processed(p) == p.completed + p.failed + p.skipped

\* BatchProgress.remaining
remaining(p) == p.total_videos - processed(p) - p.in_progress

\* BatchProgress.success_rate < bound, on exact rationals:
\* (completed / processed) * 100 < bound
success_rate_below(p, bound) ==
    IF processed(p) = 0 THEN 0 < bound
    ELSE p.completed * 100 < bound * processed(p)

\* VideoProcessingJob.to_dict: the result object is not serialised
JobToDict(job) ==
    [video_path |-> job.video_path, job_id |-> job.job_id,
     status |-> job.status,
     start_time |-> IF job.start_time # NoTime
                    THEN isoformat(job.start_time) ELSE JsonNull,
     end_time |-> IF job.end_time # NoTime
                  THEN isoformat(job.end_time) ELSE JsonNull,
     attempts |-> job.attempts,
     error_message |-> job.error_message]

\* to_dict with the processed total written into the "completed" field
to_dict_ProcessedAsCompleted(p) ==
    [batch_id |-> p.batch_id, total_videos |-> p.total_videos,
     completed |-> processed(p), failed |-> p.failed, skipped |-> p.skipped,
     in_progress |-> p.in_progress, processed |-> processed(p),
     remaining |-> remaining(p),
     jobs |-> [j \in DOMAIN p.jobs |-> JobToDict(p.jobs[j])]]

\* BatchProgress.to_dict
to_dict(p) ==
    [batch_id |-> p.batch_id, total_videos |-> p.total_videos,
     completed |-> p.completed, failed |-> p.failed, skipped |-> p.skipped,
     in_progress |-> p.in_progress, processed |-> processed(p),
     remaining |-> remaining(p),
     jobs |-> [j \in DOMAIN p.jobs |-> JobToDict(p.jobs[j])]]

(* --------------------------- checkpoint file --------------------------- *)
\* The file is absent, or holds text that json.load rejects, or holds a JSON
\* object: "keys" are the keys present in it, "data" their values.
NoFile ==
    [kind |-> "absent", keys |-> {}, data |-> to_dict(BatchProgress("", 0))]
Malformed ==
    [kind |-> "malformed", keys |-> {},
     data |-> to_dict(BatchProgress("", 0))]
Document(d) == [kind |-> "json", keys |-> DOMAIN d, data |-> d]

\* a JSON object that holds only the keys ks of the document d
Truncated(d, ks) == [kind |-> "json", keys |-> ks, data |-> d]

\* data.get(key, default)
Get(file, key, default) ==
    IF key \in file.keys THEN file.data[key] ELSE default

None == [some |-> FALSE, value |-> BatchProgress("", 0)]
Some(p) == [some |-> TRUE, value |-> p]

\* BatchProcessor.load_progress, applied to the content of the file
load_progress_from(file, batch_id) ==
    IF file.kind = "absent" THEN None
    ELSE IF file.kind = "malformed" THEN None
    ELSE IF Get(file, "batch_id", "") # batch_id THEN None
    ELSE LET jobs == Get(file, "jobs", BatchProgress("", 0).jobs)
         IN Some([batch_id |-> batch_id,
                  total_videos |-> Get(file, "total_videos", 0),
                  completed |-> Get(file, "completed", 0),
                  failed |-> Get(file, "failed", 0),
                  skipped |-> Get(file, "skipped", 0),
                  in_progress |-> Get(file, "in_progress", 0),
                  jobs |-> [j \in DOMAIN jobs |->
                              [video_path |-> jobs[j].video_path,
                               job_id |-> j,
                               status |-> jobs[j].status,
                               start_time |->
                                   IF jobs[j].start_time # JsonNull
                                   THEN fromisoformat(jobs[j].start_time)
                                   ELSE NoTime,
                               end_time |->
                                   IF jobs[j].end_time # JsonNull
                                   THEN fromisoformat(jobs[j].end_time)
                                   ELSE NoTime,
                               attempts |-> jobs[j].attempts,
                               error_message |-> jobs[j].error_message,
                               result |-> FALSE]]])

load_progress(batch_id) == load_progress_from(disk, batch_id)

\* The file write inside save_progress: open(..., 'w') fails and leaves the
\* file alone, or json.dump fails after the file was truncated, or it works.
IoOutcomes == {"ok", "open_fails", "dump_fails"}

WriteFile(file, p, io) ==
    CASE io = "ok" -> Document(to_dict(p))
      [] io = "open_fails" -> file
      [] io = "dump_fails" -> Malformed

\* BatchProcessor.save_progress called with the lock free: the new content
\* of the checkpoint file
save_progress(file, p, io) ==
    IF ~config.enable_progress_file THEN file
    ELSE WriteFile(file, p, io)

(* ------------------------------ process_batch -------------------------- *)
\* the filter without its skip_completed branch
NeedsProcessing_NoSkip(job) == TRUE

\* process_batch: "Filter jobs to process"
NeedsProcessing(job) ==
    IF job.status \in {"pending", "failed"}
          \/ (job.status = "failed" /\ job.attempts < config.retry_attempts)
    THEN TRUE
    ELSE IF job.status \in {"completed", "skipped"} /\ config.skip_completed
    THEN FALSE
    ELSE TRUE

\* the if / elif / else with the first "elif" written as a second "if"
AppendsOf_NoElif(job) ==
    (IF job.status \in {"pending", "failed"}
           \/ (job.status = "failed" /\ job.attempts < config.retry_attempts)
     THEN <<job.job_id>> ELSE << >>)
    \o (IF job.status \in {"completed", "skipped"} /\ config.skip_completed
        THEN << >> ELSE <<job.job_id>>)

\* process_batch: what one iteration of the filter loop appends to
\* jobs_to_process
AppendsOf(job) == IF NeedsProcessing(job) THEN <<job.job_id>> ELSE << >>

\* process_batch: the filter loop "for job in progress.jobs.values()" over
\* the first n jobs of the dict
RECURSIVE FilterJobs(_, _)
FilterJobs(p, n) ==
    IF n = 0 THEN << >>
    ELSE IF (n - 1) \in DOMAIN p.jobs
         THEN FilterJobs(p, n - 1) \o AppendsOf(p.jobs[n - 1])
         ELSE FilterJobs(p, n - 1)

jobs_to_process_list(p) == FilterJobs(p, NumVideos)

jobs_to_process(p) ==
    {jobs_to_process_list(p)[i] : i \in DOMAIN jobs_to_process_list(p)}

\* process_batch: "Load or create progress"
\* a Progress with a job for every video there could be
FreshProgressOn_EveryVideo(batch_id, files) ==
    [BatchProgress(batch_id, NumVideos) EXCEPT
        !.jobs = [i \in JobIds |-> VideoProcessingJob(i, i)]]

\* "for i, video_path in enumerate(video_files)": job i is made for the
\* (i+1)-th entry of the list that discover_videos returned
FreshProgressOn(batch_id, files) ==
    [BatchProgress(batch_id, Len(files)) EXCEPT
        !.jobs = [i \in 0 .. (Len(files) - 1) |->
                    VideoProcessingJob(files[i + 1], i)]]

\* the list discover_videos returns when every video is in place: a video
\* path is the rank of its text among the paths
AllVideos == [i \in 1 .. NumVideos |-> i - 1]

FreshProgress(batch_id) == FreshProgressOn(batch_id, AllVideos)

\* process_batch: the submit loop over jobs_to_process
SubmitAll(p, todo) ==
    [p EXCEPT !.in_progress = @ + Cardinality(todo),
              !.jobs = [j \in DOMAIN p.jobs |->
                          IF j \in todo
                          THEN [p.jobs[j] EXCEPT !.status = "processing"]
                          ELSE p.jobs[j]]]

\* who holds progress_lock while the code of a site runs: _update_progress
\* and save_progress run their bodies inside "with self.progress_lock", the
\* other sites take no lock
LockHeldBy(site) ==
    IF site \in {"_update_progress", "save_progress"} THEN "main"
    ELSE lockHolder

Access(op, site) == [op |-> op, site |-> site, lock |-> LockHeldBy(site)]

\* load_progress looks for the checkpoint file and reads it
LoadReads ==
    IF config.enable_resume THEN {Access("file_read", "load_progress")}
    ELSE {}

\* process_batch with the checkpoint looked up before the discovery result
\* is tested
EntryAccesses_LoadFirst(found) == LoadReads

\* process_batch, lines 456-464: the file accesses made on entry when
\* discovery found that many files
EntryAccesses(found) == IF found = 0 THEN {} ELSE LoadReads

\* save_progress: the write of the checkpoint file
SaveWrites(io) ==
    IF config.enable_progress_file /\ io # "open_fails"
    THEN {Access("file_write", "save_progress")}
    ELSE {}

\* positions at which no process_batch call is active: before the first
\* call, after a return, after a TimeoutError, after the no-input ValueError
CallEnded == {"idle", "returned", "raised", "no_input"}

\* process_batch up to the as_completed loop: discovery, load or create,
\* filter, and submission of every job to the pool.
StartBatchOn(batch_id, files) ==
    /\ pc \in CallEnded
    /\ budget > 0
    /\ budget' = budget - 1
    /\ LET loaded == IF config.enable_resume THEN load_progress(batch_id)
                     ELSE None
           p0 == IF loaded.some THEN loaded.value
                 ELSE FreshProgressOn(batch_id, files)
           todo == jobs_to_process(p0)
       IN /\ resumed' = loaded.some
          /\ loadedJobs' = p0.jobs
          /\ submitted' = todo
          /\ futures' = jobs_to_process_list(p0)
          /\ IF todo = {}
             THEN /\ progress' = p0
                  /\ pc' = "returned"
                  /\ wstate' = [j \in JobIds |-> "idle"]
                  /\ log' = EntryAccesses(Len(files))
             ELSE /\ progress' = SubmitAll(p0, todo)
                  /\ pc' = "waiting"
                  /\ wstate' = [j \in JobIds |->
                                  IF j \in todo THEN "queued" ELSE "idle"]
                  /\ log' = EntryAccesses(Len(files))
                               \cup {Access("counter", "submit")}
    /\ handled' = {}
    /\ notStarted' = {}
    /\ saved' = "no"
    /\ elapsed' = 0
    /\ ran' = [j \in JobIds |-> 0]
    /\ slept' = [j \in JobIds |-> << >>]
    /\ video_files' = files
    /\ UNCHANGED <<config, disk, lockHolder, input_paths, scanned, glob_folds,
                   formatting, summary, generation,
                   progress_callback>>

\* process_batch when discovery finds every video
StartBatch(batch_id) == StartBatchOn(batch_id, AllVideos)

\* process_batch when discovery finds no video file: ValueError("No video
\* files found in input paths") is raised at line 459, before any Progress
\* exists.
StartBatchNoInput ==
    /\ pc \in CallEnded
    /\ budget > 0
    /\ budget' = budget - 1
    /\ pc' = "no_input"
    /\ log' = EntryAccesses(0)
    /\ progress' = BatchProgress("", 0)
    /\ resumed' = FALSE
    /\ loadedJobs' = BatchProgress("", 0).jobs
    /\ submitted' = {}
    /\ futures' = << >>
    /\ handled' = {}
    /\ notStarted' = {}
    /\ saved' = "no"
    /\ elapsed' = 0
    /\ ran' = [j \in JobIds |-> 0]
    /\ slept' = [j \in JobIds |-> << >>]
    /\ wstate' = [j \in JobIds |-> "idle"]
    /\ video_files' = << >>
    /\ UNCHANGED <<config, disk, lockHolder, input_paths, scanned, glob_folds,
                   formatting, summary, generation,
                   progress_callback>>

\* a status counter that is taken back instead of counted up
Counted_Down(n) == n - 1

\* _update_progress: "progress.completed += 1", "progress.failed += 1",
\* "progress.skipped += 1"
Counted(n) == n + 1

\* the counter updates with the "failed" branch left out
CountJob_FailedUncounted(p, job) ==
    [p EXCEPT !.completed = IF job.status = "completed"
                            THEN Counted(@) ELSE @,
              !.skipped = IF job.status = "skipped" THEN Counted(@) ELSE @,
              !.in_progress = @ - 1]

\* _update_progress: the counter updates made under the lock
CountJob(p, job) ==
    [p EXCEPT !.completed = IF job.status = "completed"
                            THEN Counted(@) ELSE @,
              !.failed = IF job.status = "failed" THEN Counted(@) ELSE @,
              !.skipped = IF job.status = "skipped" THEN Counted(@) ELSE @,
              !.in_progress = @ - 1]

\* _update_progress: "Save progress periodically"
PeriodicSaveDue(p) == processed(p) % config.save_progress_interval = 0

\* process_batch: "Check error rate"
BreakerTrips(p) ==
    /\ processed(p) > GraceThreshold
    /\ success_rate_below(p, 100 - max_error_percentage)
    /\ ~config.continue_on_error

\* One iteration of the as_completed loop: future.result(), the job is
\* installed in progress.jobs, _update_progress, error-rate check.
\* _update_progress holds progress_lock; when the periodic save is due and
\* the progress file is enabled, save_progress tries to acquire the same
\* threading.Lock (not reentrant): the thread stays at pc "save_lock" as the
\* holder of the lock it waits for.
HandleCompletion(j) ==
    /\ pc = "waiting"
    /\ j \in submitted \ handled
    /\ wstate[j] = "done"
    /\ lockHolder = "none"
    /\ handled' = handled \cup {j}
    /\ LET p1 == CountJob(progress, progress.jobs[j])
       IN /\ progress' = p1
          /\ IF PeriodicSaveDue(p1) /\ config.enable_progress_file
             THEN /\ pc' = "save_lock"
                  /\ lockHolder' = "main"
                  /\ notStarted' = notStarted
             ELSE /\ lockHolder' = "none"
                  /\ IF BreakerTrips(p1)
                     THEN /\ pc' = "breaking"
                          /\ notStarted' = {k \in JobIds : wstate[k] = "queued"}
                     ELSE /\ pc' = IF handled' = submitted THEN "exiting"
                                   ELSE "waiting"
                          /\ notStarted' = notStarted
    /\ log' = log \cup {Access("counter", "_update_progress")}
    /\ UNCHANGED <<config, disk, wstate, submitted, budget, resumed,
                   loadedJobs, saved, elapsed, ran, slept, futures,
                   side>>

\* ThreadPoolExecutor.__exit__: shutdown(wait=True) returns when no work item
\* is queued or running
PoolIdle == \A j \in JobIds : wstate[j] \in {"idle", "done"}

\* save_progress with the "except Exception" around the write left out
AfterSave_Propagates(io) == IF io = "ok" THEN "returned" ELSE "raised"

\* where process_batch is after the final save_progress call: an exception
\* of the write is caught and logged inside save_progress (lines 287-288),
\* so process_batch goes on to "return progress" whatever the write did
AfterSave(io) == "returned"

\* Leaving the "with ThreadPoolExecutor" block after the loop ended or was
\* left by break, then "Final progress save" and return.
FinalSave(io) ==
    /\ pc \in {"exiting", "breaking"}
    /\ PoolIdle
    /\ lockHolder = "none"
    /\ disk' = save_progress(disk, progress, io)
    /\ saved' = IF config.enable_progress_file THEN io ELSE "disabled"
    /\ pc' = AfterSave(io)
    /\ log' = log \cup SaveWrites(io)
    /\ UNCHANGED <<config, progress, wstate, submitted, handled, lockHolder,
                   budget, resumed, loadedJobs, notStarted, elapsed, ran,
                   slept, futures,
                   side>>

\* as_completed(..., timeout=timeout_per_video * len(jobs_to_process))
Deadline == TimeoutTicks * Cardinality(submitted)

\* as_completed finds its deadline passed while futures are outstanding and
\* none is ready to be yielded: TimeoutError is raised by the iterator, in
\* the for statement, outside the try block of the loop body.
AsCompletedTimeout ==
    /\ pc = "waiting"
    /\ elapsed > Deadline
    /\ submitted # handled
    /\ \A j \in submitted \ handled : wstate[j] # "done"
    /\ pc' = "raising"
    /\ UNCHANGED <<config, progress, disk, wstate, submitted, handled,
                   lockHolder, budget, resumed, loadedJobs, notStarted,
                   saved, elapsed, ran,
                   log, slept, futures,
                   side>>

\* The TimeoutError leaves the "with ThreadPoolExecutor" block (which waits
\* for the pool) and then process_batch.
PropagateTimeout ==
    /\ pc = "raising"
    /\ PoolIdle
    /\ pc' = "raised"
    /\ UNCHANGED <<config, progress, disk, wstate, submitted, handled,
                   lockHolder, budget, resumed, loadedJobs, notStarted,
                   saved, elapsed, ran,
                   log, slept, futures,
                   side>>

(* ------------------------- _process_single_video ----------------------- *)
Running == {j \in JobIds : wstate[j] \in {"pipeline", "backoff"}}
Queued == {j \in JobIds : wstate[j] = "queued"}

SetJob(j, f) == [progress EXCEPT !.jobs[j] = f]

\* datetime.now(): the reading of the wall clock, which shows the same
\* value until its next tick
Now == elapsed + 1

\* the job returned without its end_time being set
EndStamp_Unset(job) == job.end_time

\* _process_single_video: "job.end_time = datetime.now()"
EndStamp(job) == Now

\* the attempt count carried on from the value the job came with
FirstAttempt_Continues(job) == job.attempts + 1

\* _process_single_video: the value "for attempt in range(1, ...)" gives
\* job.attempts in the first iteration
FirstAttempt(job) == 1

\* A pool thread takes the oldest queued work item and enters
\* _process_single_video: status "processing", first attempt.
WorkerStart(j) ==
    /\ wstate[j] = "queued"
    /\ \A k \in Queued : j <= k
    /\ Cardinality(Running) < config.max_workers
    /\ wstate' = [wstate EXCEPT ![j] = "pipeline"]
    /\ progress' = SetJob(j, [progress.jobs[j] EXCEPT
                                !.start_time = Now,
                                !.status = "processing",
                                !.attempts = FirstAttempt(progress.jobs[j])])
    /\ UNCHANGED <<config, disk, pc, submitted, handled, lockHolder, budget,
                   resumed, loadedJobs, notStarted, saved, elapsed, ran,
                   log, slept, futures,
                   side>>

\* The attempt's pipeline returns: "Success"
AttemptSucceeds(j) ==
    /\ wstate[j] = "pipeline"
    /\ gen[j] = 0
    /\ wstate' = [wstate EXCEPT ![j] = "done"]
    /\ progress' = SetJob(j, [progress.jobs[j] EXCEPT
                                !.status = "completed",
                                !.result = TRUE,
                                !.end_time = EndStamp(progress.jobs[j])])
    /\ UNCHANGED <<config, disk, pc, submitted, handled, lockHolder, budget,
                   resumed, loadedJobs, notStarted, saved, elapsed, ran,
                   log, slept, futures,
                   side>>

\* the sleep made the same length after every attempt
BackoffDelay_Constant(attempt) == retry_delay

\* _process_single_video: time.sleep(self.config.retry_delay * attempt)
BackoffDelay(attempt) == retry_delay * attempt

\* The attempt's pipeline raises: the except branch
AttemptFails(j) ==
    /\ wstate[j] = "pipeline"
    /\ gen[j] = 0
    /\ LET job == progress.jobs[j]
       IN IF job.attempts < config.retry_attempts
          THEN /\ wstate' = [wstate EXCEPT ![j] = "backoff"]
               /\ progress' = SetJob(j, [job EXCEPT
                                  !.error_message = job.attempts])
               /\ slept' = [slept EXCEPT
                              ![j] = Append(@, BackoffDelay(job.attempts))]
          ELSE /\ wstate' = [wstate EXCEPT ![j] = "done"]
               /\ progress' = SetJob(j, [job EXCEPT
                                  !.error_message = job.attempts,
                                  !.status = "failed",
                                  !.end_time = EndStamp(job)])
               /\ slept' = slept
    /\ UNCHANGED <<config, disk, pc, submitted, handled, lockHolder, budget,
                   resumed, loadedJobs, notStarted, saved, elapsed, ran,
                   log, futures,
                   side>>

\* time.sleep(retry_delay * attempt) is over: the next attempt begins
NextAttempt(j) ==
    /\ wstate[j] = "backoff"
    /\ wstate' = [wstate EXCEPT ![j] = "pipeline"]
    /\ progress' = SetJob(j, [progress.jobs[j] EXCEPT !.attempts = @ + 1])
    /\ ran' = [ran EXCEPT ![j] = 0]
    /\ UNCHANGED <<config, disk, pc, submitted, handled, lockHolder, budget,
                   resumed, loadedJobs, notStarted, saved, elapsed,
                   log, slept, futures,
                   side>>

\* The wall clock advances by one tick while the as_completed loop waits for
\* outstanding futures; every pipeline that is running gets one tick older.
Tick ==
    /\ pc = "waiting"
    /\ \E j \in submitted : wstate[j] # "done"
    /\ elapsed <= Deadline
    /\ elapsed' = elapsed + 1
    /\ ran' = [j \in JobIds |->
                 IF wstate[j] = "pipeline" /\ ran[j] <= TimeoutTicks
                 THEN ran[j] + 1 ELSE ran[j]]
    /\ UNCHANGED <<config, progress, disk, pc, wstate, submitted, handled,
                   lockHolder, budget, resumed, loadedJobs, notStarted,
                   saved,
                   log, slept, futures,
                   side>>

(* ------------------------------ the system ----------------------------- *)
Configs ==
    [max_workers : 1 .. MaxWorkers,
     retry_attempts : 1 .. MaxRetryAttempts,
     save_progress_interval : {ShortInterval, LongInterval},
     enable_progress_file : BOOLEAN,
     continue_on_error : BOOLEAN,
     enable_resume : BOOLEAN,
     skip_completed : BOOLEAN]

(* ------------------------------ formatters ---------------------------- *)
\* A VideoAnalysisResult: the video it is about and which of the analyses
\* of that video it is (two analyses of one video generate different text).
Results == [video : JobIds, version : 1 .. MaxVersions]

\* content of a file that does not exist
Absent == [by |-> "none", video |-> 0, version |-> 0]

\* what a formatter generates from a result: _generate_video_markdown, the
\* thumbnail image, the rows of a CSV table
Generated(fmt, r) == [by |-> fmt, video |-> r.video, version |-> r.version]

\* the tables SemanticModelExporter writes, in the order it writes them;
\* they lie in the output directory and are the same files for every video
SemanticTables == <<"flight_facts", "altitude_dimension">>
Common == 0 - 1

\* _get_output_path: "<video>_thumbnail.jpg", "<video>.md", and the tables
OutputNames ==
    ({"thumbnail", "markdown"} \X JobIds)
    \cup {<<SemanticTables[i], Common>> : i \in DOMAIN SemanticTables}

\* _check_file_exists without the look at overwrite_existing
CheckFileExists_KeepsAlways(content) == content # Absent

\* BaseFormatter._check_file_exists(file_path), on the content of the file
CheckFileExists(content) == content # Absent /\ ~overwrite_existing

\* "if self._check_file_exists(path): return path", else generate and
\* open(path, 'w') ... write
WriteUnlessKept(fs, name, content) ==
    IF CheckFileExists(fs[name]) THEN fs ELSE [fs EXCEPT ![name] = content]

\* SemanticModelExporter.format_single_video: _generate_flight_facts, then
\* the dimension tables, from the n-th table on
RECURSIVE WriteTables(_, _, _)
WriteTables(fs, r, n) ==
    IF n > Len(SemanticTables) THEN fs
    ELSE WriteTables(
             WriteUnlessKept(fs, <<SemanticTables[n], Common>>,
                             Generated(SemanticTables[n], r)),
             r, n + 1)

\* ThumbnailGenerator.format_single_video and
\* MarkdownFormatter.format_single_video
FormatPerVideo(fmt, r) ==
    /\ outputs' = WriteUnlessKept(outputs, <<fmt, r.video>>, Generated(fmt, r))
    /\ last_call' = [fmt |-> fmt, result |-> r,
                     returned |-> {<<fmt, r.video>>}]
    /\ UNCHANGED <<main, discovery, overwrite_existing, summary,
                   generation, progress_callback>>

\* SemanticModelExporter.format_single_video
FormatSemantic(r) ==
    /\ outputs' = WriteTables(outputs, r, 1)
    /\ last_call' = [fmt |-> "semantic", result |-> r,
                     returned |-> {<<SemanticTables[i], Common>> :
                                      i \in DOMAIN SemanticTables}]
    /\ UNCHANGED <<main, discovery, overwrite_existing, summary,
                   generation, progress_callback>>

NoCall == [fmt |-> "none", result |-> [video |-> 0, version |-> 1],
           returned |-> {}]

\* the formatters are not being looked at
FormattingIdle ==
    /\ outputs = [n \in OutputNames |-> Absent]
    /\ overwrite_existing = FALSE
    /\ last_call = NoCall

(* --------------------------- get_batch_summary ------------------------ *)
\* VideoProcessingJob.processing_time, in seconds; NoDuration is None
NoDuration == 0 - 1

processing_time(job) ==
    IF job.start_time # NoTime /\ job.end_time # NoTime
    THEN job.end_time - job.start_time
    ELSE NoDuration

\* bool(processing_time): None is false, and so is a timedelta of zero
Truthy(t) == t # NoDuration /\ t # 0

\* the list comprehension without its test of the status
successful_jobs_AnyStatus(p) ==
    {j \in DOMAIN p.jobs : Truthy(processing_time(p.jobs[j]))}

\* get_batch_summary: "[job for job in progress.jobs.values() if job.status
\* == "completed" and job.processing_time]"; a timedelta of zero is false
successful_jobs(p) ==
    {j \in DOMAIN p.jobs : /\ p.jobs[j].status = "completed"
                           /\ Truthy(processing_time(p.jobs[j]))}

RECURSIVE SumOver(_, _)
SumOver(f, S) ==
    IF S = {} THEN 0
    ELSE LET x == CHOOSE y \in S : TRUE IN f[x] + SumOver(f, S \ {x})

\* a quotient of two integers, held exactly
Ratio(n, d) == [num |-> n, den |-> d]
SameRatio(a, b) == a.num * b.den = b.num * a.den

\* avg, min and max of the processing times of the jobs in S
TimesOf(p, S) == [j \in S |-> processing_time(p.jobs[j])]
Timing(p, S) ==
    IF S # {}
    THEN [average_time_per_video |->
              Ratio(SumOver(TimesOf(p, S), S), Cardinality(S)),
          min_time_per_video |->
              CHOOSE t \in {TimesOf(p, S)[j] : j \in S} :
                  \A j \in S : t <= TimesOf(p, S)[j],
          max_time_per_video |->
              CHOOSE t \in {TimesOf(p, S)[j] : j \in S} :
                  \A j \in S : t >= TimesOf(p, S)[j]]
    ELSE [average_time_per_video |-> Ratio(0, 1),
          min_time_per_video |-> 0,
          max_time_per_video |-> 0]

\* BatchProgress.success_rate
success_rate(p) ==
    IF processed(p) = 0 THEN Ratio(0, 1)
    ELSE Ratio(p.completed * 100, processed(p))

\* get_batch_summary: error_types, keyed by the text before the first colon
\* of error_message ("Attempt <k> failed"), here k
error_types(p) ==
    LET failed == {j \in DOMAIN p.jobs : /\ p.jobs[j].status = "failed"
                                         /\ p.jobs[j].error_message # 0}
        keys == {p.jobs[j].error_message : j \in failed}
    IN [k \in keys |->
           Cardinality({j \in failed : p.jobs[j].error_message = k})]

\* BatchProcessor.get_batch_summary(progress)
get_batch_summary(p) ==
    [batch_id |-> p.batch_id,
     total_videos |-> p.total_videos,
     completed |-> p.completed,
     failed |-> p.failed,
     skipped |-> p.skipped,
     success_rate |-> success_rate(p),
     timing |-> Timing(p, successful_jobs(p)),
     error_types |-> error_types(p),
     failed_jobs |-> {j \in DOMAIN p.jobs : p.jobs[j].status = "failed"}]

\* no summary has been asked for
NoSummary == get_batch_summary(BatchProgress("", 0))

\* The caller asks for the summary of the Progress it holds.
GetBatchSummary ==
    /\ summary' = get_batch_summary(progress)
    /\ UNCHANGED <<main, discovery, formatting, generation,
                   progress_callback>>

\* discover_videos is not being looked at
DiscoveryIdle ==
    /\ input_paths = << >>
    /\ video_files = << >>
    /\ scanned = 1
    /\ glob_folds = FALSE

\* no worker is inside _generate_outputs
GenerationIdle ==
    /\ gen = [j \in JobIds |-> 0]
    /\ swallowed = {}
    /\ wrote = {}

SideIdle ==
    /\ DiscoveryIdle
    /\ FormattingIdle
    /\ summary = NoSummary
    /\ GenerationIdle
    /\ progress_callback = FALSE

\* a BatchProcessor on which process_batch is never called, and a Progress
\* object p
NoCallsOn(p) ==
    /\ config \in {c \in Configs : /\ c.max_workers = 1
                                   /\ c.retry_attempts = 1
                                   /\ c.save_progress_interval = LongInterval
                                   /\ c.enable_progress_file
                                   /\ c.continue_on_error
                                   /\ c.enable_resume
                                   /\ c.skip_completed}
    /\ budget = 0
    /\ progress = p
    /\ disk = NoFile
    /\ pc = "idle"
    /\ wstate = [j \in JobIds |-> "idle"]
    /\ submitted = {}
    /\ handled = {}
    /\ lockHolder = "none"
    /\ resumed = FALSE
    /\ loadedJobs = BatchProgress("", 0).jobs
    /\ notStarted = {}
    /\ saved = "no"
    /\ elapsed = 0
    /\ ran = [j \in JobIds |-> 0]
    /\ log = {}
    /\ slept = [j \in JobIds |-> << >>]
    /\ futures = << >>

NoCalls == NoCallsOn(BatchProgress("", 0))

InitMain(cfgs, calls, files) ==
    /\ config \in cfgs
    /\ budget = calls
    /\ progress = BatchProgress("", 0)
    /\ disk \in files
    /\ pc = "idle"
    /\ wstate = [j \in JobIds |-> "idle"]
    /\ submitted = {}
    /\ handled = {}
    /\ lockHolder = "none"
    /\ resumed = FALSE
    /\ loadedJobs = BatchProgress("", 0).jobs
    /\ notStarted = {}
    /\ saved = "no"
    /\ elapsed = 0
    /\ ran = [j \in JobIds |-> 0]
    /\ log = {}
    /\ slept = [j \in JobIds |-> << >>]
    /\ futures = << >>

InitOn(cfgs, calls, files) ==
    /\ InitMain(cfgs, calls, files)
    /\ SideIdle

\* the output directory holds no checkpoint file when the first call is made
InitWith(cfgs, calls) == InitOn(cfgs, calls, {NoFile})

(* ---------------------------- discover_videos ------------------------- *)
\* The directory tree the input paths point into. A path is the rank of its
\* text among the texts of all paths, so that "<" on paths is the string
\* order that sorted() uses:
\*   1 "/a"  2 "/a/1.mp4"  3 "/a/2.Mp4"  4 "/a/skip.txt"  5 "/a/sub"
\*   6 "/a/sub/3.MP4"  7 "/b/4.mov" (does not exist)
Paths == 1 .. 7

Tree ==
    [p \in Paths |->
        CASE p = 1 -> [kind |-> "dir", suffix |-> "", under |-> {}]
          [] p = 2 -> [kind |-> "file", suffix |-> ".mp4", under |-> {1}]
          [] p = 3 -> [kind |-> "file", suffix |-> ".Mp4", under |-> {1}]
          [] p = 4 -> [kind |-> "file", suffix |-> ".txt", under |-> {1}]
          [] p = 5 -> [kind |-> "dir", suffix |-> "", under |-> {1}]
          [] p = 6 -> [kind |-> "file", suffix |-> ".MP4", under |-> {1, 5}]
          [] p = 7 -> [kind |-> "none", suffix |-> ".mov", under |-> {}]]

\* str.lower() on the suffixes of the tree
Lower(suffix) ==
    CASE suffix \in {".mp4", ".Mp4", ".MP4"} -> ".mp4"
      [] suffix \in {".mov", ".MOV"} -> ".mov"
      [] suffix \in {".avi", ".AVI"} -> ".avi"
      [] OTHER -> suffix

\* discover_videos: video_extensions, in one iteration order of the set
video_extensions == <<".mp4", ".MP4", ".mov", ".MOV", ".avi", ".AVI">>

ExtensionSet == {video_extensions[i] : i \in DOMAIN video_extensions}

\* sorted(list(S)) for a set S of paths
RECURSIVE Sorted(_)
Sorted(S) ==
    IF S = {} THEN << >>
    ELSE LET m == CHOOSE x \in S : \A y \in S : x <= y
         IN <<m>> \o Sorted(S \ {m})

Range(s) == {s[i] : i \in DOMAIN s}

\* path.rglob("*" + ext): the paths below the directory whose name ends in
\* ext; where the file system ignores case the match does so too
rglob(dir, ext) ==
    Sorted({p \in Paths : /\ Tree[p].kind # "none"
                          /\ dir \in Tree[p].under
                          /\ IF glob_folds
                             THEN Lower(Tree[p].suffix) = Lower(ext)
                             ELSE Tree[p].suffix = ext})

\* "for ext in video_extensions: video_files.extend(...)" from the n-th
\* extension on
RECURSIVE GlobAll(_, _)
GlobAll(dir, n) ==
    IF n > Len(video_extensions) THEN << >>
    ELSE rglob(dir, video_extensions[n]) \o GlobAll(dir, n + 1)

\* discover_videos: what one iteration of "for path_str in input_paths"
\* appends to video_files
FoundAt(path) ==
    IF Tree[path].kind = "file" /\ Tree[path].suffix \in ExtensionSet
    THEN <<path>>
    ELSE IF Tree[path].kind = "dir" THEN GlobAll(path, 1)
    ELSE << >>

\* one iteration of the loop over input_paths
ScanPath ==
    /\ scanned <= Len(input_paths)
    /\ video_files' = video_files \o FoundAt(input_paths[scanned])
    /\ scanned' = scanned + 1
    /\ UNCHANGED <<main, input_paths, glob_folds, formatting, summary,
                   generation, progress_callback>>

\* "video_files = sorted(list(set(video_files)))" and return
SortAndReturn ==
    /\ scanned = Len(input_paths) + 1
    /\ video_files' = Sorted(Range(video_files))
    /\ scanned' = Len(input_paths) + 2
    /\ UNCHANGED <<main, input_paths, glob_folds, formatting, summary,
                   generation, progress_callback>>

Returned == scanned = Len(input_paths) + 2

\* The lists of at most MaxPaths paths
InputLists ==
    UNION {[1 .. n -> Paths] : n \in 0 .. MaxPaths}

InitDiscover ==
    /\ NoCalls
    /\ GenerationIdle
    /\ progress_callback = FALSE
    /\ FormattingIdle
    /\ summary = NoSummary
    /\ input_paths \in InputLists
    /\ video_files = << >>
    /\ scanned = 1
    /\ glob_folds \in BOOLEAN

NextDiscover == ScanPath \/ SortAndReturn

SpecDiscover == InitDiscover /\ [][NextDiscover]_vars

\* Pipelines that finish well within the timeout: any configuration, a first
\* call and the calls that resume from its checkpoint.
Init == InitWith(Configs, MaxRuns)

Next ==
    \/ \E b \in BatchIds : StartBatch(b)
    \/ StartBatchNoInput
    \/ \E j \in JobIds : HandleCompletion(j)
    \/ \E io \in IoOutcomes : FinalSave(io)
    \/ \E j \in JobIds : WorkerStart(j)
    \/ \E j \in JobIds : AttemptSucceeds(j)
    \/ \E j \in JobIds : AttemptFails(j)
    \/ \E j \in JobIds : NextAttempt(j)

Spec == Init /\ [][Next]_vars

\* Repeated resumed calls with the error-rate stop armed.
BreakerConfigs ==
    {c \in Configs : /\ ~c.continue_on_error
                     /\ c.enable_resume
                     /\ c.enable_progress_file
                     /\ c.save_progress_interval = LongInterval
                     /\ c.skip_completed}

InitBreaker == InitWith(BreakerConfigs, BreakerRuns)

SpecBreaker == InitBreaker /\ [][Next]_vars

\* Calls that find a checkpoint file they did not write themselves: none,
\* text that is not JSON, or a JSON object of batch_a that lacks keys.
InitialFiles ==
    {NoFile, Malformed}
    \cup {Truncated(to_dict(FreshProgress("batch_a")), ks) :
              ks \in {{"batch_id"}, {"batch_id", "total_videos"}}}

LoadConfigs ==
    {c \in Configs : /\ c.enable_resume
                     /\ c.continue_on_error
                     /\ c.save_progress_interval = LongInterval}

InitLoad == InitOn(LoadConfigs, LoadRuns, InitialFiles)

SpecLoad == InitLoad /\ [][Next]_vars

\* One call whose jobs may fail several times in a row.
RetryConfigs ==
    [max_workers : 1 .. MaxWorkers,
     retry_attempts : 1 .. MaxBackoffAttempts,
     save_progress_interval : {LongInterval},
     enable_progress_file : BOOLEAN,
     continue_on_error : {TRUE},
     enable_resume : {TRUE},
     skip_completed : {TRUE}]

InitRetry == InitWith(RetryConfigs, 1)

SpecRetry == InitRetry /\ [][Next]_vars

\* One call, with the wall clock.
TimedConfigs ==
    {c \in Configs : /\ c.continue_on_error
                     /\ c.enable_resume
                     /\ c.save_progress_interval = LongInterval
                     /\ c.skip_completed}

InitTimed == InitWith(TimedConfigs, 1)

NextTimed ==
    \/ Next
    \/ Tick
    \/ AsCompletedTimeout
    \/ PropagateTimeout

SpecTimed == InitTimed /\ [][NextTimed]_vars

(* --------------------------- _generate_outputs ------------------------ *)
\* The pipeline of a worker with its fourth step, _generate_outputs, followed
\* file by file. gen[j] is 0 while the worker of job j is not in
\* _generate_outputs, t while it stands between the _check_file_exists that
\* found table t missing and the open(..., 'w') of that table, and
\* Len(SemanticTables) + 1 when all formatters have returned.
AnalysisOf(j) == [video |-> progress.jobs[j].video_path, version |-> 1]

TableName(t) == <<SemanticTables[t], Common>>

\* the next table after table t that _check_file_exists does not keep
RECURSIVE NextWrite(_, _)
NextWrite(fs, t) ==
    IF t >= Len(SemanticTables) THEN Len(SemanticTables) + 1
    ELSE IF CheckFileExists(fs[TableName(t + 1)]) THEN NextWrite(fs, t + 1)
    ELSE t + 1

\* ThumbnailGenerator and MarkdownFormatter on the analysis result r
OwnOutputs(fs, r) ==
    WriteUnlessKept(
        WriteUnlessKept(fs, <<"thumbnail", r.video>>,
                        Generated("thumbnail", r)),
        <<"markdown", r.video>>, Generated("markdown", r))

WorkerVars == <<config, disk, pc, submitted, handled, lockHolder, budget,
                resumed, loadedJobs, notStarted, saved, elapsed, ran, log,
                slept, futures, discovery, overwrite_existing, last_call,
                summary, progress_callback>>

\* Steps 1 to 3 went through; _generate_outputs makes the thumbnail and the
\* markdown file and looks for the tables up to the first one it has to write.
EnterOutputs(j) ==
    /\ wstate[j] = "pipeline"
    /\ gen[j] = 0
    /\ outputs' = OwnOutputs(outputs, AnalysisOf(j))
    /\ gen' = [gen EXCEPT ![j] = NextWrite(outputs, 0)]
    /\ wrote' = IF outputs' # outputs THEN wrote \cup {j} ELSE wrote \ {j}
    /\ swallowed' = swallowed \ {j}
    /\ UNCHANGED <<WorkerVars, wstate, progress>>

\* open(path, 'w') and the rows of table gen[j], then on to the next table
\* that has to be written
WriteTable(j) ==
    /\ wstate[j] = "pipeline"
    /\ gen[j] \in DOMAIN SemanticTables
    /\ outputs' = [outputs EXCEPT ![TableName(gen[j])] =
                      Generated(SemanticTables[gen[j]], AnalysisOf(j))]
    /\ gen' = [gen EXCEPT ![j] = NextWrite(outputs, gen[j])]
    /\ wrote' = wrote \cup {j}
    /\ UNCHANGED <<WorkerVars, wstate, progress, swallowed>>

\* what _process_single_video does once _generate_outputs has returned
Success(job) ==
    [job EXCEPT !.status = "completed", !.result = TRUE,
                !.end_time = EndStamp(job)]

\* _generate_outputs returns the paths: "Success"
FinishOutputs(j) ==
    /\ wstate[j] = "pipeline"
    /\ gen[j] = Len(SemanticTables) + 1
    /\ wstate' = [wstate EXCEPT ![j] = "done"]
    /\ progress' = SetJob(j, Success(progress.jobs[j]))
    /\ gen' = [gen EXCEPT ![j] = 0]
    /\ UNCHANGED <<WorkerVars, outputs, swallowed, wrote>>

\* A formatter raises (FormatterError, or the open of a table fails):
\* _generate_outputs catches it, logs "Some output generation failed" and
\* returns the paths it has so far; the pipeline goes on to "Success".
OutputsRaise(j) ==
    /\ wstate[j] = "pipeline"
    /\ gen[j] <= Len(SemanticTables)
    /\ wstate' = [wstate EXCEPT ![j] = "done"]
    /\ progress' = SetJob(j, Success(progress.jobs[j]))
    /\ gen' = [gen EXCEPT ![j] = 0]
    /\ swallowed' = swallowed \cup {j}
    /\ wrote' = IF gen[j] = 0 THEN wrote \ {j} ELSE wrote
    /\ UNCHANGED <<WorkerVars, outputs>>

\* Two calls on one output directory, the second one on a batch of its own.
OutputConfigs ==
    {c \in Configs : /\ c.continue_on_error
                     /\ c.save_progress_interval = LongInterval
                     /\ c.skip_completed
                     /\ c.enable_progress_file
                     /\ ~c.enable_resume}

InitOutputs ==
    /\ InitMain(OutputConfigs, OutputRuns, {NoFile})
    /\ DiscoveryIdle
    /\ GenerationIdle
    /\ progress_callback = FALSE
    /\ summary = NoSummary
    /\ outputs = [n \in OutputNames |-> Absent]
    /\ overwrite_existing \in BOOLEAN
    /\ last_call = NoCall

NextOutputs ==
    \/ \E b \in BatchIds : StartBatch(b)
    \/ \E j \in JobIds : HandleCompletion(j)
    \/ \E io \in IoOutcomes : FinalSave(io)
    \/ \E j \in JobIds : WorkerStart(j)
    \/ \E j \in JobIds : AttemptFails(j)
    \/ \E j \in JobIds : NextAttempt(j)
    \/ \E j \in JobIds : EnterOutputs(j)
    \/ \E j \in JobIds : WriteTable(j)
    \/ \E j \in JobIds : FinishOutputs(j)
    \/ \E j \in JobIds : OutputsRaise(j)

SpecOutputs == InitOutputs /\ [][NextOutputs]_vars

\* Calls of format_single_video on formatters that share one output
\* directory and one FormatterConfig, one call after the other.
InitFormat ==
    /\ NoCalls
    /\ GenerationIdle
    /\ progress_callback = FALSE
    /\ DiscoveryIdle
    /\ summary = NoSummary
    /\ outputs = [n \in OutputNames |-> Absent]
    /\ overwrite_existing \in BOOLEAN
    /\ last_call = NoCall

NextFormat ==
    \/ \E r \in Results : FormatPerVideo("thumbnail", r)
    \/ \E r \in Results : FormatPerVideo("markdown", r)
    \/ \E r \in Results : FormatSemantic(r)

SpecFormat == InitFormat /\ [][NextFormat]_vars

\* The Progress objects get_batch_summary is asked about: up to
\* MaxSummaryJobs jobs that are pending, or completed or failed with a start
\* and an end time, and the counters that go with them.
SummaryJobs ==
    {[VideoProcessingJob(0, 0) EXCEPT !.status = "pending"]}
    \cup {[VideoProcessingJob(0, 0) EXCEPT
              !.status = st, !.start_time = 1, !.end_time = 1 + 2 * d,
              !.attempts = 1,
              !.error_message = IF st = "failed" THEN 1 ELSE 0]
          : st \in {"completed", "failed"}, d \in 0 .. MaxDurationSteps}

WithIds(jobs) ==
    [j \in DOMAIN jobs |-> [jobs[j] EXCEPT !.job_id = j, !.video_path = j]]

SummaryInputs ==
    {[BatchProgress("batch_a", Cardinality(DOMAIN jobs)) EXCEPT
         !.jobs = WithIds(jobs),
         !.completed = Cardinality({j \in DOMAIN jobs :
                                       jobs[j].status = "completed"}),
         !.failed = Cardinality({j \in DOMAIN jobs :
                                    jobs[j].status = "failed"})]
     : jobs \in
          UNION {[0 .. (m - 1) -> SummaryJobs] : m \in 1 .. MaxSummaryJobs}}

InitSummary ==
    /\ \E p \in SummaryInputs : NoCallsOn(p)
    /\ DiscoveryIdle
    /\ FormattingIdle
    /\ GenerationIdle
    /\ progress_callback = FALSE
    /\ summary = NoSummary

SpecSummary == InitSummary /\ [][GetBatchSummary]_vars

(* --------------------------- progress callback ------------------------- *)
\* set_progress_callback, called between two process_batch calls
SetProgressCallback ==
    /\ pc \in CallEnded
    /\ ~progress_callback
    /\ progress_callback' = TRUE
    /\ UNCHANGED <<main, discovery, formatting, summary, generation>>

\* str(e) of the exception the callback raised, as an error_message
CallbackError == 0 - 1

\* the except branch of the completion loop, lines 520-524
MarkFailed(job) ==
    [job EXCEPT !.status = "failed",
                !.error_message = CallbackError,
                !.end_time = Now]

\* The completion loop takes job j, _update_progress counts it and calls the
\* callback, which raises. The exception leaves _update_progress and lands in
\* the "except Exception" of the loop: the job is marked failed and
\* _update_progress is called a second time. In that call the periodic save
\* may be due; otherwise the callback is called once more and either returns
\* or raises again, and then the exception leaves process_batch.
CallbackRaises(j, again) ==
    /\ pc = "waiting"
    /\ j \in submitted \ handled
    /\ wstate[j] = "done"
    /\ lockHolder = "none"
    /\ progress_callback
    /\ handled' = handled \cup {j}
    /\ LET p1 == CountJob(progress, progress.jobs[j])
           failed_job == MarkFailed(progress.jobs[j])
           p2 == CountJob([p1 EXCEPT !.jobs[j] = failed_job], failed_job)
       IN /\ ~(PeriodicSaveDue(p1) /\ config.enable_progress_file)
          /\ progress' = p2
          /\ IF PeriodicSaveDue(p2) /\ config.enable_progress_file
             THEN /\ pc' = "save_lock"
                  /\ lockHolder' = "main"
             ELSE /\ lockHolder' = "none"
                  /\ pc' = IF again THEN "raising"
                           ELSE IF handled' = submitted THEN "exiting"
                           ELSE "waiting"
    /\ log' = log \cup {Access("counter", "_update_progress")}
    /\ UNCHANGED <<config, disk, wstate, submitted, budget, resumed,
                   loadedJobs, notStarted, saved, elapsed, ran, slept, futures,
                   side>>

CallbackConfigs ==
    {c \in Configs : /\ c.continue_on_error
                     /\ c.skip_completed
                     /\ ~c.enable_resume}

InitCallback == InitWith(CallbackConfigs, CallbackRuns)

NextCallback ==
    \/ SetProgressCallback
    \/ \E b \in BatchIds : StartBatch(b)
    \/ \E j \in JobIds : HandleCompletion(j)
    \/ \E j \in JobIds, again \in BOOLEAN : CallbackRaises(j, again)
    \/ PropagateTimeout
    \/ \E io \in IoOutcomes : FinalSave(io)
    \/ \E j \in JobIds : WorkerStart(j)
    \/ \E j \in JobIds : AttemptSucceeds(j)
    \/ \E j \in JobIds : AttemptFails(j)
    \/ \E j \in JobIds : NextAttempt(j)

SpecCallback == InitCallback /\ [][NextCallback]_vars

(* ------------------------ a checkpoint after every job ----------------- *)
\* save_progress_interval = 1: _update_progress comes to its periodic save
\* with the first job it counts, while the other workers still run
EveryJob == 1

CheckpointConfigs ==
    {[c EXCEPT !.save_progress_interval = EveryJob] :
        c \in {d \in Configs : d.save_progress_interval = ShortInterval}}

InitCheckpoint == InitWith(CheckpointConfigs, MaxRuns)

SpecCheckpoint == InitCheckpoint /\ [][Next]_vars

(* ------------------- calls on a changing set of videos ----------------- *)
\* Between two process_batch calls videos may be added to or removed from the
\* input directories: each call discovers some sorted, non-empty list of the
\* videos.
FileLists == {Sorted(S) : S \in (SUBSET JobIds) \ {{}}}

ResumeConfigs ==
    {c \in Configs : /\ c.continue_on_error
                     /\ c.save_progress_interval = LongInterval
                     /\ c.skip_completed
                     /\ c.enable_progress_file
                     /\ c.retry_attempts = 1}

InitResume == InitWith(ResumeConfigs, ResumeRuns)

NextResume ==
    \/ \E b \in BatchIds, files \in FileLists : StartBatchOn(b, files)
    \/ StartBatchNoInput
    \/ \E j \in JobIds : HandleCompletion(j)
    \/ \E io \in IoOutcomes : FinalSave(io)
    \/ \E j \in JobIds : WorkerStart(j)
    \/ \E j \in JobIds : AttemptSucceeds(j)
    \/ \E j \in JobIds : AttemptFails(j)

SpecResume == InitResume /\ [][NextResume]_vars

(* ------------------------------ properties ----------------------------- *)
\* the pipeline of job j has been entered in the current call
Executed(j) == wstate[j] \notin {"idle", "queued"}

JobsWithStatus(p, st) == {j \in DOMAIN p.jobs : p.jobs[j].status = st}

\* C1: in every reachable state, fresh or resumed, the four counters sum to
\* at most total_videos: BatchProgress.remaining (the implicit pending count)
\* is never negative.
C1_PendingNeverNegative == remaining(progress) >= 0

\* C2: handling a job completion never blocks forever: the thread that
\* called process_batch is never left waiting for progress_lock while it is
\* itself the holder of that lock.
C2_CompletionNeverBlocks == ~(pc = "save_lock" /\ lockHolder = "main")

\* C3: on a call that resumed from a checkpoint with enable_resume and
\* skip_completed set, no job loaded as completed or skipped is handed to
\* the pool or has its pipeline executed.
C3_CompletedNotReexecuted ==
    (resumed /\ config.enable_resume /\ config.skip_completed) =>
        \A j \in DOMAIN loadedJobs :
            loadedJobs[j].status \in {"completed", "skipped"} =>
                (wstate[j] = "idle" /\ j \notin submitted)

\* C3 witness: a resumed call has returned after running some job, and left
\* alone a job that the checkpoint had as completed.
C3_Witness ==
    /\ resumed /\ config.enable_resume /\ config.skip_completed
    /\ pc = "returned"
    /\ \E j \in DOMAIN loadedJobs :
          loadedJobs[j].status = "completed" /\ wstate[j] = "idle"
    /\ \E k \in JobIds : wstate[k] = "done"

\* C4: on a resumed call a job loaded as failed is re-executed if and only
\* if its loaded attempts are below retry_attempts.
C4_FailedRetriedIffBudgetLeft ==
    resumed =>
        \A j \in DOMAIN loadedJobs :
            loadedJobs[j].status = "failed" =>
                /\ Executed(j) =>
                      loadedJobs[j].attempts < config.retry_attempts
                /\ (pc = "returned"
                      /\ loadedJobs[j].attempts < config.retry_attempts)
                      => Executed(j)

\* C5: no job's attempts ever exceed retry_attempts, also after it was run
\* again on a resumed call, and a job whose worker is through without a
\* successful attempt (every attempt of its pipeline raised) is failed with
\* attempts equal to retry_attempts.
C5_RetryBound ==
    \A j \in DOMAIN progress.jobs :
        /\ progress.jobs[j].attempts <= config.retry_attempts
        /\ (wstate[j] = "done" /\ progress.jobs[j].status # "completed") =>
              /\ progress.jobs[j].status = "failed"
              /\ progress.jobs[j].attempts = config.retry_attempts

\* C5 witness: a job that the checkpoint had as failed was run again on a
\* resumed call with two attempts allowed, and failed them all.
C5_Witness ==
    /\ resumed
    /\ config.retry_attempts > 1
    /\ \E j \in DOMAIN loadedJobs :
          /\ loadedJobs[j].status = "failed"
          /\ loadedJobs[j].attempts = config.retry_attempts
          /\ wstate[j] = "done"
          /\ progress.jobs[j].status = "failed"
          /\ progress.jobs[j].attempts = config.retry_attempts

\* C6: after the error-rate check stopped the loop, no job that was still
\* queued at that moment starts, and process_batch returns with those jobs
\* left pending.
C6_BreakerStopsNewWork ==
    /\ \A j \in notStarted : wstate[j] = "queued"
    /\ pc = "returned" =>
          \A j \in notStarted : progress.jobs[j].status = "pending"

\* C7: whenever process_batch has returned, the completed, failed and
\* skipped counters equal the number of jobs with that status, and
\* in_progress equals the number of jobs whose status is processing.
C7_CountersMatchJobs ==
    pc = "returned" =>
        /\ progress.completed
              = Cardinality(JobsWithStatus(progress, "completed"))
        /\ progress.failed = Cardinality(JobsWithStatus(progress, "failed"))
        /\ progress.skipped = Cardinality(JobsWithStatus(progress, "skipped"))
        /\ progress.in_progress
              = Cardinality(JobsWithStatus(progress, "processing"))

\* load_progress(p.batch_id) on the file gives the counters and the job
\* statuses of p
RoundTrip(p, file) ==
    LET l == load_progress_from(file, p.batch_id)
    IN /\ l.some
       /\ l.value.total_videos = p.total_videos
       /\ l.value.completed = p.completed
       /\ l.value.failed = p.failed
       /\ l.value.skipped = p.skipped
       /\ l.value.in_progress = p.in_progress
       /\ DOMAIN l.value.jobs = DOMAIN p.jobs
       /\ \A j \in DOMAIN p.jobs :
             l.value.jobs[j].status = p.jobs[j].status

\* C8 as stated: after save_progress(p) was called, load_progress(p.batch_id)
\* yields the counters and job statuses of p.
C8_SaveThenLoad ==
    (pc = "returned" /\ saved # "no") => RoundTrip(progress, disk)

\* C8 amended: the same, when enable_progress_file is set and the write of
\* the file succeeded.
C8_SaveThenLoadWritten ==
    (pc = "returned" /\ saved = "ok") => RoundTrip(progress, disk)

\* C8 witness: a Progress with a completed and a failed job was written and
\* process_batch has returned.
C8_Witness ==
    /\ pc = "returned" /\ saved = "ok"
    /\ progress.completed > 0 /\ progress.failed > 0
    /\ JobsWithStatus(progress, "completed") # {}
    /\ JobsWithStatus(progress, "failed") # {}

\* C9: once the job loop was entered, control leaves process_batch only
\* after a final save_progress call, and a checkpoint that call wrote
\* carries the counters and job statuses of the Progress.
C9_FinalSaveOnEveryExit ==
    (pc \in {"returned", "raised"} /\ submitted # {}) =>
        /\ saved # "no"
        /\ saved = "ok" => RoundTrip(progress, disk)

\* C10: a job whose pipeline ran longer than timeout_per_video is not
\* completed by that attempt, and process_batch does not raise because of a
\* timeout.
C10_TimeoutIsJobFailure ==
    /\ \A j \in JobIds :
          (wstate[j] = "done" /\ ran[j] > TimeoutTicks) =>
              progress.jobs[j].status # "completed"
    /\ pc \notin {"raising", "raised"}


\* process_batch is between the submission of its jobs and its return
InCall == pc \in {"waiting", "exiting", "breaking", "save_lock", "raising"}

\* the failed counter the current call started from (the checkpoint file is
\* not written between the start of a call and its final save)
FailedAtStart ==
    IF resumed THEN load_progress(progress.batch_id).value.failed ELSE 0

C12_WorkersLeaveProgressAlone ==
    \A j \in submitted \ handled :
        progress.jobs[j] = [loadedJobs[j] EXCEPT !.status = "processing"]


\* C13: every change to a Progress counter and every write of the checkpoint
\* file made during a process_batch call is made by a thread that holds
\* progress_lock at that moment.
C13_CountersAndFileUnderLock ==
    \A a \in log : a.op \in {"counter", "file_write"} => a.lock = "main"


\* C14: within one process_batch call the jobs needing execution are
\* selected once and each is submitted to the pool at most once: the list of
\* submitted jobs holds no job twice and holds exactly the jobs of the call
\* that ever get a worker, and a new call begins only when no pipeline of
\* the previous call is still queued or running, so a job's pipeline never
\* runs in two workers at once.
C14_SubmittedAtMostOnce ==
    /\ \A i, k \in DOMAIN futures : i # k => futures[i] # futures[k]
    /\ {futures[i] : i \in DOMAIN futures} = submitted
    /\ \A j \in JobIds : wstate[j] # "idle" => j \in submitted
    /\ pc \in CallEnded => PoolIdle

C14_Witness ==
    /\ resumed
    /\ Len(futures) = NumVideos
    /\ Cardinality(Running) = MaxWorkers


\* C15: when discovery yields no files, process_batch fails with the
\* no-input ValueError before it creates any job, starts any worker, or
\* reads or writes the checkpoint file.
C15_NoInputTouchesNothing ==
    [][pc' = "no_input" =>
          /\ log' = {}
          /\ disk' = disk
          /\ DOMAIN progress'.jobs = {}
          /\ futures' = << >>
          /\ \A j \in JobIds : wstate'[j] = "idle"]_vars

C15_Witness == pc = "no_input" /\ config.enable_resume /\ disk.kind = "json"


\* the file holds a whole checkpoint document: JSON with every key that
\* to_dict writes
WellFormed(file) ==
    file.kind = "json" /\ file.keys = DOMAIN to_dict(BatchProgress("", 0))

\* C16: load_progress(batch_id) returns None when the checkpoint file does
\* not exist, when its stored batch_id differs from the requested one, or
\* when its content is malformed; it never returns a partially populated
\* Progress, and process_batch then starts from a fresh batch.
C16_LoadFailsClosed ==
    [][\A b \in BatchIds :
          (budget' = budget - 1 /\ pc' # "no_input"
              /\ progress'.batch_id = b) =>
             /\ load_progress(b).some =>
                   WellFormed(disk) /\ disk.data.batch_id = b
             /\ ~load_progress(b).some =>
                   ~resumed' /\ loadedJobs' = FreshProgress(b).jobs]_vars


\* C17: within one process_batch run, processed = completed + failed +
\* skipped never decreases from one state to the next.
C17_ProcessedNeverDecreases ==
    [][budget' = budget => processed(progress') >= processed(progress)]_vars

C17_Witness == ~resumed /\ pc = "returned" /\ processed(progress) = NumVideos


\* C18: when the write of the checkpoint file fails with an I/O error,
\* save_progress returns normally: the batch is not aborted, the counters
\* and the jobs in memory are what they were before the failed write, and
\* process_batch still returns the Progress.
C18_FailedWriteIsHarmless ==
    [][(saved = "no" /\ saved' \in {"open_fails", "dump_fails"}) =>
          /\ pc' = "returned"
          /\ progress' = progress]_vars

C18_Witness ==
    /\ pc = "returned"
    /\ saved = "dump_fails"
    /\ disk.kind = "malformed"
    /\ progress.completed > 0


Succeeds(j) ==
    /\ wstate[j] = "pipeline"
    /\ wstate'[j] = "done"
    /\ progress'.jobs[j].status = "completed"

\* what holds of job j when its attempt number k succeeds, k being one more
\* than the number of failed attempts it slept after in this call
SuccessIsFinal(j) ==
    /\ Succeeds(j) =>
          /\ progress'.jobs[j].attempts = Len(slept[j]) + 1
          /\ progress'.jobs[j].attempts = progress.jobs[j].attempts
          /\ progress'.jobs[j].start_time # NoTime
          /\ progress'.jobs[j].end_time # NoTime
    /\ (wstate[j] = "done" /\ budget' = budget) =>
          /\ wstate'[j] = "done"
          /\ progress'.jobs[j] = progress.jobs[j]

AmongInputs(paths) ==
    {p \in Paths : /\ Tree[p].kind = "file"
                   /\ \/ p \in Range(paths)
                      \/ \E d \in Range(paths) :
                            Tree[d].kind = "dir" /\ d \in Tree[p].under}

\* C21: discover_videos returns exactly the files among its inputs whose
\* extension is .mp4, .mov or .avi in any mix of upper and lower case,
\* without duplicates and in sorted order, whatever the order of the input
\* paths, and the empty list when nothing matches.
C21_DiscoversVideosOfAnyCase ==
    Returned =>
        video_files =
            Sorted({p \in AmongInputs(input_paths) :
                       Lower(Tree[p].suffix) \in {".mp4", ".mov", ".avi"}})


\* the files format_single_video of formatter fmt writes for result r
FilesOf(fmt, r) ==
    IF fmt = "semantic"
    THEN {<<SemanticTables[i], Common>> : i \in DOMAIN SemanticTables}
    ELSE {<<fmt, r.video>>}

Timed(p) == {j \in DOMAIN p.jobs : processing_time(p.jobs[j]) # NoDuration}

CountsReported(p, s) ==
    /\ s.total_videos = p.total_videos
    /\ s.completed = p.completed
    /\ s.failed = p.failed
    /\ s.skipped = p.skipped
    /\ processed(p) > 0 =>
          SameRatio(s.success_rate, Ratio(100 * p.completed, processed(p)))

\* three completed jobs of 2 s, 4 s and 6 s and one failed job
IsScenario(p) ==
    /\ Cardinality(DOMAIN p.jobs) = 4
    /\ Cardinality(JobsWithStatus(p, "failed")) = 1
    /\ {processing_time(p.jobs[j]) : j \in JobsWithStatus(p, "completed")}
          = {2, 4, 6}

ScenarioReported(p, s) ==
    IsScenario(p) =>
        /\ SameRatio(s.timing.average_time_per_video, Ratio(4, 1))
        /\ s.timing.min_time_per_video = 2
        /\ s.timing.max_time_per_video = 6
        /\ SameRatio(s.success_rate, Ratio(75, 1))

\* C23 as stated: get_batch_summary leaves progress unchanged and reports
\* the counts, success_rate = 100 * completed / processed, and the average,
\* minimum and maximum processing time over the jobs that have a recorded
\* duration; the scenario Progress gives 4.0, 2.0, 6.0 and 75.0.
C23_SummaryOverTimedJobs ==
    [][summary' # summary =>
          /\ progress' = progress
          /\ CountsReported(progress, summary')
          /\ ScenarioReported(progress, summary')
          /\ summary'.timing = Timing(progress, Timed(progress))]_vars

\* C23, amended: the average, minimum and maximum are taken over the
\* completed jobs whose recorded duration is not zero, and are 0 when there
\* is no such job.
C23_SummaryOverCompletedJobs ==
    [][summary' # summary =>
          /\ progress' = progress
          /\ CountsReported(progress, summary')
          /\ ScenarioReported(progress, summary')
          /\ summary'.timing =
                Timing(progress,
                       {j \in JobsWithStatus(progress, "completed") :
                           processing_time(progress.jobs[j]) > 0})]_vars

\* the summary of the scenario Progress, whose failed job ran for 6 s
C23_Witness ==
    /\ IsScenario(progress)
    /\ \E j \in JobsWithStatus(progress, "failed") :
          processing_time(progress.jobs[j]) = 6
    /\ summary = get_batch_summary(progress)
    /\ summary.failed = 1


\* C24: an exception in any step of the pipeline, output generation included,
\* makes the attempt fail: a job is never marked completed for an attempt
\* whose output generation raised.
C24_OutputFailureFailsAttempt ==
    \A j \in swallowed : progress.jobs[j].status # "completed"


\* the worker of job j has returned from a pipeline in which every formatter
\* found its file and kept it
OutputsExisted(j) ==
    /\ wstate[j] = "done"
    /\ progress.jobs[j].status # "failed"
    /\ ~overwrite_existing
    /\ j \notin wrote
    /\ j \notin swallowed

\* C25: a job whose outputs already exist while overwrite_existing is false
\* ends in the terminal status skipped and is counted in the skipped counter,
\* not in completed.
C25_ExistingOutputsAreSkipped ==
    \A j \in JobIds :
        OutputsExisted(j) =>
            /\ progress.jobs[j].status = "skipped"
            /\ j \in handled => progress.skipped > 0


\* process_batch has got past its discovery
Discovered == pc \notin {"idle", "no_input"}

\* the jobs of the Progress stand one to one for the discovered files
OneJobPerFile ==
    /\ Cardinality(DOMAIN progress.jobs) = Len(video_files)
    /\ {progress.jobs[j].video_path : j \in DOMAIN progress.jobs}
           = Range(video_files)

\* C26: on a resumed run the job collection corresponds one to one to the
\* files discovered in this call, and total_videos is the number discovered.
C26_ResumedJobsMatchDiscovery ==
    (Discovered /\ resumed) =>
        /\ OneJobPerFile
        /\ progress.total_videos = Len(video_files)

\* C27: when no checkpoint is loaded there is exactly one job per discovered
\* file, created pending with attempts 0 and numbered in discovery order, and
\* total_videos is the number of jobs.
C27_FreshJobsInDiscoveryOrder ==
    (Discovered /\ ~resumed) =>
        /\ OneJobPerFile
        /\ DOMAIN loadedJobs = 0 .. (Len(video_files) - 1)
        /\ \A i \in DOMAIN loadedJobs :
              /\ loadedJobs[i].video_path = video_files[i + 1]
              /\ loadedJobs[i].job_id = i
              /\ loadedJobs[i].status = "pending"
              /\ loadedJobs[i].attempts = 0
        /\ progress.total_videos = Cardinality(DOMAIN progress.jobs)

C27_Witness ==
    /\ Discovered
    /\ ~resumed
    /\ video_files = <<1>>
    /\ progress.jobs[0].status = "completed"


\* C30: with overwrite_existing false and more than one worker, a table in
\* the common output directory is written at most once during the batch:
\* once one worker has written it, no other worker overwrites it.
C30_SharedTableWrittenOnce ==
    [][(~overwrite_existing /\ config.max_workers > 1) =>
          \A t \in DOMAIN SemanticTables :
              outputs[TableName(t)] # Absent =>
                  outputs'[TableName(t)] = outputs[TableName(t)]]_vars


\* the completion loop takes a job whose worker has returned
Taken(j) == j \in handled' \ handled

\* C28: every job taken from the completion loop changes the counters exactly
\* once, also when the progress callback raises inside _update_progress:
\* exactly one of completed, failed, skipped grows by 1 and in_progress falls
\* by 1; a job the worker returned as completed is not re-marked failed.
C28_CountedOnceAndNotRemarked ==
    [][\A j \in JobIds :
          Taken(j) =>
              /\ processed(progress') = processed(progress) + 1
              /\ progress'.in_progress = progress.in_progress - 1
              /\ progress.jobs[j].status = "completed"
                    => progress'.jobs[j].status = "completed"]_vars


\* the number of job records of a checkpoint document with that status
RecordsWith(doc, status) ==
    Cardinality({j \in DOMAIN doc.jobs : doc.jobs[j].status = status})

\* the file holds a document whose counters agree with its job records
ConsistentSnapshot(file) ==
    /\ file.kind = "json"
    /\ file.data.completed = RecordsWith(file.data, "completed")
    /\ file.data.failed = RecordsWith(file.data, "failed")

\* _update_progress has come to its periodic save_progress call while the
\* pool still has work
SavingWhileRunning == pc = "save_lock" /\ ~PoolIdle

====
